---- MODULE Spec2Model ----
(***************************************************************************)
(* Multi-tenant incident-report application: the admin-actions function,   *)
(* the REST route handlers for users, companies and incident reports, and  *)
(* the background AI-analysis worker.                                      *)
(*                                                                         *)
(* Encoding of JavaScript values:                                          *)
(*   - a user name (the e-mail) is an integer: RootUser is the first       *)
(*     SuperAdmin created by the setup script, 1..NumEmails are e-mails    *)
(*     a create call may supply, NoUser is "no identity / no username";    *)
(*   - a company id and a company name are integers 1..NumCompanies,       *)
(*     0 (Undef) is undefined / empty string, the falsy value of the code; *)
(*   - a group name is a string, "" is the falsy "no group".               *)
(***************************************************************************)
EXTENDS Integers, Sequences, FiniteSets, TLC

\* ------------------------------------------------------------------ bounds
NumEmails == 2
NumCompanies == 2
\* Users in one ListUsers response, scaled down with the pool (the service
\* answers with one page and a pagination token).
PageSize == 2

Undef == 0
NoUser == -1
RootUser == 0

Emails == 1..NumEmails
Usernames == {RootUser} \cup Emails
CompanyIds == 1..NumCompanies
CompanyNames == 1..NumCompanies

\* The groups the user-create route accepts.
validGroups == {"SuperAdmin", "Admin", "IncidentReporter", "Customer"}

NumReports == 2
MaxPhotos == 2
NumWorkers == 1
MaxRuns == 2

ReportIds == 1..NumReports

VARIABLES
  pool,        \* the user pool: user name -> directory record
  last,        \* the last user-management call: its caller, its input, its outcome
  lookup,      \* the fallback directory lookup of that call: "none", "made", "failed"
  companies,   \* the Company table: id -> record
  lastCo,      \* the last call of a company route
  reports,     \* the IncidentReport table: id -> record
  lastRep,     \* the last call of an incident-report route
  workers,     \* the runs of the background analysis worker: slot -> run state
  bucket,      \* the keys of the analysed images copied into the storage bucket
  runs,        \* the number of worker invocations so far
  modal,       \* the edit-report modal: its props, its component state, its last save
  companyContext  \* the company context provider: the role it sees, its state, its last refresh

userVars == <<pool, last, lookup>>
companyVars == <<companies, lastCo>>
reportVars == <<reports, lastRep>>
workerVars == <<workers, bucket, runs>>
uiVars == <<modal, companyContext>>

AbsentUser == [exists |-> FALSE, groups |-> {}, companyId |-> Undef, companyName |-> Undef]

NewUser(groups, companyId, companyName) ==
  [exists |-> TRUE, groups |-> groups, companyId |-> companyId, companyName |-> companyName]

Existing == {u \in Usernames : pool[u].exists}

\* ------------------------------------------------------ caller identities
\* The identity the GraphQL layer hands to the function for a signed-in pool
\* user: its groups, and its tenant claims under the prefixed key, under the
\* plain key, or not at all.
NoIdentity ==
  [username |-> NoUser, groups |-> {},
   claims |-> [customCompanyId |-> Undef, companyId |-> Undef,
               customCompanyName |-> Undef, companyName |-> Undef]]

IdentityOf(u, shape) ==
  IF u = NoUser THEN NoIdentity
  ELSE [username |-> u, groups |-> pool[u].groups,
        claims |-> [customCompanyId   |-> IF shape = "custom" THEN pool[u].companyId ELSE Undef,
                    companyId         |-> IF shape = "plain" THEN pool[u].companyId ELSE Undef,
                    customCompanyName |-> IF shape = "custom" THEN pool[u].companyName ELSE Undef,
                    companyName       |-> IF shape = "plain" THEN pool[u].companyName ELSE Undef]]

Callers == Existing \cup {NoUser}

\* The sessions a caller can hold: the claim shape, and whether the fallback
\* directory lookup answers. Only shapes and answers that can differ are drawn.
Sessions(u) ==
  IF u = NoUser \/ pool[u].companyId = Undef
    THEN {<<"none", TRUE>>}
  ELSE IF "Admin" \in pool[u].groups /\ "SuperAdmin" \notin pool[u].groups
    THEN {<<"custom", TRUE>>, <<"plain", TRUE>>, <<"none", TRUE>>, <<"none", FALSE>>}
  ELSE {<<"custom", TRUE>>, <<"plain", TRUE>>, <<"none", TRUE>>}

\* Payload inputs: no group or one of the pool's groups; no company, or a
\* company id together with its display name.
GroupInputs == {"", "SuperAdmin", "Admin", "IncidentReporter"}
CompanyInputs == {<<Undef, Undef>>} \cup {<<c, c>> : c \in CompanyIds}

\* ------------------------------------------------ admin-actions function
\* claims[`custom:${name}`] || claims[name]
getClaim(claims, name) ==
  IF name = "companyId"
    THEN (IF claims.customCompanyId # Undef THEN claims.customCompanyId ELSE claims.companyId)
    ELSE (IF claims.customCompanyName # Undef THEN claims.customCompanyName ELSE claims.companyName)

\* AdminGetUserCommand: the directory record, or a throw when the user is gone
\* or the call fails (lookupOk = FALSE).
getCallerContextIdOnly(identity, lookupOk) ==
  LET groups == identity.groups
      isSuperAdmin == "SuperAdmin" \in groups
      isAdmin == "Admin" \in groups
      claimId == getClaim(identity.claims, "companyId")
      claimName == getClaim(identity.claims, "companyName")
      fallback == identity.username # NoUser /\ ~isSuperAdmin /\ isAdmin /\ claimId = Undef
      found == lookupOk /\ pool[identity.username].exists
  IN [groups |-> groups, isSuperAdmin |-> isSuperAdmin, isAdmin |-> isAdmin,
      companyId |-> IF fallback
                      THEN (IF found THEN pool[identity.username].companyId ELSE Undef)
                      ELSE claimId,
      companyName |-> claimName]

getCallerContext(identity, lookupOk) ==
  LET groups == identity.groups
      isSuperAdmin == "SuperAdmin" \in groups
      isAdmin == "Admin" \in groups
      claimId == getClaim(identity.claims, "companyId")
      claimName == getClaim(identity.claims, "companyName")
      fallback == identity.username # NoUser /\ ~isSuperAdmin /\ isAdmin /\ claimId = Undef
      found == lookupOk /\ pool[identity.username].exists
  IN [groups |-> groups, isSuperAdmin |-> isSuperAdmin, isAdmin |-> isAdmin,
      companyId |-> IF fallback
                      THEN (IF found THEN pool[identity.username].companyId ELSE Undef)
                      ELSE claimId,
      companyName |-> IF fallback
                        THEN (IF found THEN pool[identity.username].companyName ELSE claimName)
                        ELSE claimName]

\* What becomes of the fallback lookup of getCallerContext for this identity:
\* not attempted, answered by the directory, or thrown and caught.
Lookup(identity, lookupOk) ==
  IF /\ identity.username # NoUser
     /\ "SuperAdmin" \notin identity.groups
     /\ "Admin" \in identity.groups
     /\ getClaim(identity.claims, "companyId") = Undef
    THEN (IF lookupOk /\ pool[identity.username].exists THEN "made" ELSE "failed")
    ELSE "none"

\* One element of the array listUsers builds from the ListUsers response.
UserView(u, groupsOk) ==
  [username |-> u,
   groups |-> IF groupsOk THEN pool[u].groups ELSE {},
   companyId |-> pool[u].companyId,
   companyName |-> pool[u].companyName]

\* response.Users of one ListUsersCommand sent without a pagination token:
\* the whole pool when it fits in a page, otherwise some PageSize users of it.
Pages ==
  IF Cardinality(Existing) <= PageSize THEN {Existing}
  ELSE {page \in SUBSET Existing : Cardinality(page) = PageSize}

allUsers(page, groupsOk) == {UserView(u, groupsOk) : u \in page}

filteredUsersNoEmptyCheck(context, page, groupsOk) ==
  IF ~context.isSuperAdmin
    THEN {v \in allUsers(page, groupsOk) : v.companyId = context.companyId}
    ELSE allUsers(page, groupsOk)

filteredUsers(context, page, groupsOk) ==
  IF ~context.isSuperAdmin
    THEN (IF context.companyId = Undef
            THEN {}
            ELSE {v \in allUsers(page, groupsOk) : v.companyId = context.companyId})
    ELSE allUsers(page, groupsOk)

\* The record of a user-management call. target* are the target's directory
\* values before the call; changed tells whether the call changed the pool.
Outcome(op, caller, context, target, before, status, users, changed) ==
  [op |-> op, caller |-> caller,
   isSuperAdmin |-> context.isSuperAdmin, isAdmin |-> context.isAdmin,
   companyId |-> context.companyId, companyName |-> context.companyName,
   target |-> target,
   targetExisted |-> before.exists, targetCompanyId |-> before.companyId,
   status |-> status, users |-> users, changed |-> changed,
   role |-> "", currentRole |-> "", fault |-> "none"]

NoContext == [groups |-> {}, isSuperAdmin |-> FALSE, isAdmin |-> FALSE,
              companyId |-> Undef, companyName |-> Undef]

\* The REST user routes read no identity at all. The record below is the
\* caller's directory state, kept only so that properties can speak of it.
DirectoryContext(caller) ==
  IF caller = NoUser THEN NoContext
  ELSE [groups |-> pool[caller].groups,
        isSuperAdmin |-> "SuperAdmin" \in pool[caller].groups,
        isAdmin |-> "Admin" \in pool[caller].groups,
        companyId |-> pool[caller].companyId,
        companyName |-> pool[caller].companyName]

Before(u) == IF u \in Usernames THEN pool[u] ELSE AbsentUser

InitUsers ==
  /\ pool = [u \in Usernames |->
               IF u = RootUser THEN NewUser({"SuperAdmin"}, Undef, Undef) ELSE AbsentUser]
  /\ last = Outcome("none", NoUser, NoContext, NoUser, AbsentUser, "ok", {}, FALSE)
  /\ lookup = "none"

\* case "listUsers"
ListUsers(caller, shape, lookupOk, page, groupsOk) ==
  LET context == getCallerContext(IdentityOf(caller, shape), lookupOk)
  IN /\ UNCHANGED pool
     /\ last' = Outcome("listUsers", caller, context, NoUser, AbsentUser, "ok",
                        filteredUsers(context, page, groupsOk), FALSE)
     /\ UNCHANGED <<companyVars, reportVars, workerVars, uiVars>>

\* createUser, "Enforce companyId for Admins": <<error, finalCompanyId, finalCompanyName>>
finalCompanyPayloadWins(context, providedCompanyId, providedCompanyName) ==
  IF ~context.isSuperAdmin
    THEN <<context.companyId = Undef,
           IF providedCompanyId # Undef THEN providedCompanyId ELSE context.companyId,
           IF context.companyName # Undef THEN context.companyName ELSE providedCompanyName>>
    ELSE <<FALSE, providedCompanyId, providedCompanyName>>

finalCompany(context, providedCompanyId, providedCompanyName) ==
  IF ~context.isSuperAdmin
    THEN <<context.companyId = Undef,
           context.companyId,
           IF context.companyName # Undef THEN context.companyName ELSE providedCompanyName>>
    ELSE <<FALSE, providedCompanyId, providedCompanyName>>

\* case "createUser"
CreateUser(caller, shape, lookupOk, email, group, providedCompanyId, providedCompanyName) ==
  LET context == getCallerContext(IdentityOf(caller, shape), lookupOk)
      final == finalCompany(context, providedCompanyId, providedCompanyName)
      done(status) == last' = Outcome("createUser", caller, context, email, Before(email),
                                      status, {}, pool' # pool)
  IN /\ IF final[1]
          THEN UNCHANGED pool /\ done("Unauthorized")
        ELSE IF pool[email].exists
          THEN \* AdminCreateUser throws UsernameExistsException
               UNCHANGED pool /\ done("UsernameExists")
        ELSE /\ pool' = [pool EXCEPT ![email] =
                           NewUser(IF group # "" THEN {group} ELSE {}, final[2], final[3])]
             /\ done("ok")
     /\ UNCHANGED <<companyVars, reportVars, workerVars, uiVars>>

\* deleteUser, "Multi-tenancy check": "ok", or the error the check throws.
\* AdminGetUser throws for a target that is not in the pool.
deleteCheckSkipsUnassigned(context, username) ==
  IF ~context.isSuperAdmin /\ context.isAdmin
    THEN (IF context.companyId = Undef THEN "Unauthorized"
          ELSE IF ~pool[username].exists THEN "UserNotFound"
          ELSE IF pool[username].companyId # Undef
                  /\ pool[username].companyId # context.companyId THEN "Unauthorized"
          ELSE "ok")
  ELSE IF ~context.isSuperAdmin THEN "Unauthorized"
  ELSE "ok"

deleteCheck(context, username) ==
  IF ~context.isSuperAdmin /\ context.isAdmin
    THEN (IF context.companyId = Undef THEN "Unauthorized"
          ELSE IF ~pool[username].exists THEN "UserNotFound"
          ELSE IF pool[username].companyId # context.companyId THEN "Unauthorized"
          ELSE "ok")
  ELSE IF ~context.isSuperAdmin THEN "Unauthorized"
  ELSE "ok"

\* case "deleteUser"
DeleteUser(caller, shape, lookupOk, username) ==
  LET context == getCallerContext(IdentityOf(caller, shape), lookupOk)
      done(status) == last' = Outcome("deleteUser", caller, context, username,
                                      Before(username), status, {}, pool' # pool)
  IN /\ IF username = NoUser THEN UNCHANGED pool /\ done("UsernameRequired")
        ELSE IF deleteCheck(context, username) # "ok"
          THEN UNCHANGED pool /\ done(deleteCheck(context, username))
        ELSE IF ~pool[username].exists
          THEN \* AdminDeleteUser throws UserNotFoundException
               UNCHANGED pool /\ done("UserNotFound")
        ELSE /\ pool' = [pool EXCEPT ![username] = AbsentUser]
             /\ done("ok")
     /\ UNCHANGED <<companyVars, reportVars, workerVars, uiVars>>

\* ------------------------------------------------------- REST user routes
\* Array.isArray(groups) ? groups : [groups]
GroupLists == {<<g>> : g \in {"SuperAdmin", "Admin", "IncidentReporter", "HomeOwner"}}

SeqRange(q) == {q[i] : i \in 1..Len(q)}

\* POST of the user-create route
RestCreateUser(caller, email, userGroups, companyId, companyName) ==
  LET done(status) == last' = Outcome("restCreateUser", caller, DirectoryContext(caller),
                                      email, Before(email), status, {}, pool' # pool)
  IN /\ IF email = NoUser THEN UNCHANGED pool /\ done("400")
        ELSE IF \E g \in SeqRange(userGroups) : g \notin validGroups
          THEN UNCHANGED pool /\ done("400")
        ELSE IF pool[email].exists
          THEN UNCHANGED pool /\ done("409")
        ELSE /\ pool' = [pool EXCEPT ![email] =
                           NewUser(SeqRange(userGroups), companyId, companyName)]
             /\ done("ok")
     /\ UNCHANGED <<companyVars, reportVars, workerVars, uiVars>>

\* DELETE of the user-delete route
RestDeleteUser(caller, username) ==
  LET done(status) == last' = Outcome("restDeleteUser", caller, DirectoryContext(caller),
                                      username, Before(username), status, {}, pool' # pool)
  IN /\ IF username = NoUser THEN UNCHANGED pool /\ done("400")
        ELSE IF ~pool[username].exists THEN UNCHANGED pool /\ done("404")
        ELSE /\ pool' = [pool EXCEPT ![username] = AbsentUser]
             /\ done("ok")
     /\ UNCHANGED <<companyVars, reportVars, workerVars, uiVars>>

\* ------------------------------------------------------ update-role route
validRoles == {"Admin", "IncidentReporter", "Customer"}

\* The roles the edit-role dialog offers.
DialogRoles == {"Admin", "IncidentReporter", "HomeOwner"}

\* The service call of the route that fails, if any.
RoleFaults == {"none", "list", "remove", "add"}

\* The route from its validation on: the answer and the target's groups
\* afterwards. A failing call throws; what was done before it stays done: a
\* removal that throws is the one of the last group of the loop.
UpdateRoleResult(username, newRole, fault) ==
  IF username = NoUser THEN [status |-> "400", groups |-> {}]
  ELSE IF newRole = "" THEN [status |-> "400", groups |-> pool[username].groups]
  ELSE IF newRole \notin validRoles THEN [status |-> "400", groups |-> pool[username].groups]
  ELSE IF ~pool[username].exists THEN [status |-> "404", groups |-> {}]
  ELSE IF fault = "list" THEN [status |-> "500", groups |-> pool[username].groups]
  ELSE IF fault = "remove" /\ pool[username].groups # {}
    THEN [status |-> "500", groups |-> {CHOOSE g \in pool[username].groups : TRUE}]
  ELSE IF fault = "add" THEN [status |-> "500", groups |-> {}]
  ELSE [status |-> "200", groups |-> {newRole}]

\* POST /api/admin/users/update-role
UpdateRolePOST(username, newRole, fault) ==
  LET result == UpdateRoleResult(username, newRole, fault)
  IN /\ pool' = IF username # NoUser /\ pool[username].exists
                  THEN [pool EXCEPT ![username].groups = result.groups]
                  ELSE pool
     /\ last' = [Outcome("updateRole", NoUser, NoContext, username, Before(username),
                         result.status, {}, pool' # pool)
                   EXCEPT !.role = newRole, !.fault = fault]
     /\ lookup' = "none"
     /\ UNCHANGED <<companyVars, reportVars, workerVars, uiVars>>

\* The role the user list shows for a user: its group, "" when it has none.
CurrentRoles(username) ==
  IF pool[username].groups = {} THEN {""} ELSE pool[username].groups

\* handleSubmit of the edit-role dialog opened for an existing user.
EditRoleSubmit(username, currentRole, newRole, fault) ==
  LET result == UpdateRoleResult(username, newRole, fault)
      sent == ~(newRole = currentRole /\ currentRole # "")
  IN /\ pool[username].exists
     /\ currentRole \in CurrentRoles(username)
     /\ pool' = IF sent THEN [pool EXCEPT ![username].groups = result.groups] ELSE pool
     /\ last' = [Outcome("editRole", NoUser, NoContext, username, Before(username),
                         IF sent THEN result.status ELSE "closed", {}, pool' # pool)
                   EXCEPT !.role = newRole, !.currentRole = currentRole, !.fault = fault]
     /\ lookup' = "none"
     /\ UNCHANGED <<companyVars, reportVars, workerVars, uiVars>>

\* Users are created through the user-create route, in the first company,
\* then their roles edited.
NextRoles ==
  \/ \E e \in Emails, gs \in GroupLists :
       /\ RestCreateUser(NoUser, e, gs, 1, 1)
       /\ lookup' = "none"
  \/ \E u \in Usernames \cup {NoUser}, r \in validRoles \cup DialogRoles \cup {"", "SuperAdmin"},
        f \in RoleFaults :
       UpdateRolePOST(u, r, f)
  \/ \E u \in Existing : \E c \in CurrentRoles(u), r \in DialogRoles, f \in RoleFaults :
       EditRoleSubmit(u, c, r, f)

\* ------------------------------------------------------ session tokens
\* The session a REST request carries: the groups and the tenant of the
\* signed-in user.
SessionTokens ==
  {[groups |-> {"SuperAdmin"}, companyId |-> Undef]}
    \cup {[groups |-> {g}, companyId |-> c] : g \in {"Admin", "IncidentReporter"}, c \in CompanyIds}

\* ---------------------------------------------------------- company routes
AbsentCompany == [exists |-> FALSE, name |-> Undef]

NoCompanyCall == [op |-> "none", groups |-> {}, companyId |-> Undef, id |-> Undef,
                  name |-> Undef, status |-> "ok", changed |-> FALSE, returned |-> {}]

\* After deployment step 3 the first company exists.
InitCompanies ==
  /\ companies = [c \in CompanyIds |->
                    IF c = 1 THEN [exists |-> TRUE, name |-> c] ELSE AbsentCompany]
  /\ lastCo = NoCompanyCall

\* The tables the data console can have left behind: each company created,
\* under its own name, or not.
InitCompaniesAny ==
  /\ companies \in [CompanyIds -> {AbsentCompany} \cup {[exists |-> TRUE, name |-> n] : n \in CompanyNames}]
  /\ \A c \in CompanyIds : companies[c].exists => companies[c].name = c
  /\ lastCo = NoCompanyCall

\* createServerClient is an async function: a call that is not awaited yields
\* a promise, not the client.
createServerClient == [promise |-> TRUE]

\* Authorization of the Company model: full access for the SuperAdmin group,
\* read-only for the other roles.
CompanyModelAllows(groups, operation) ==
  "SuperAdmin" \in groups \/ operation = "read"

\* const client = createServerClient(); await client.models.Company.<mutation>(...)
\* "TypeError" when client.models is undefined, "errors" when the data layer
\* refuses, "ok" when the mutation is applied.
CompanyMutationUnchecked(session) == "ok"

CompanyMutation(session) ==
  IF createServerClient.promise THEN "TypeError"
  ELSE IF CompanyModelAllows(session.groups, "write") THEN "ok"
  ELSE "errors"

CoOutcome(op, session, id, name, status, changed) ==
  [op |-> op, groups |-> session.groups, companyId |-> session.companyId, id |-> id,
   name |-> name, status |-> status, changed |-> changed, returned |-> {}]

FreeCompanyIds == {c \in CompanyIds : ~companies[c].exists}

\* POST /api/admin/companies
CompaniesPOST(session, name) ==
  LET done(status) == lastCo' = CoOutcome("POST", session, Undef, name, status,
                                          companies' # companies)
  IN /\ IF name = Undef THEN UNCHANGED companies /\ done("400")
        ELSE IF CompanyMutation(session) # "ok" \/ FreeCompanyIds = {}
          THEN UNCHANGED companies /\ done("500")
        ELSE /\ \E id \in FreeCompanyIds :
                  companies' = [companies EXCEPT ![id] = [exists |-> TRUE, name |-> name]]
             /\ done("201")
     /\ UNCHANGED <<userVars, reportVars, workerVars, uiVars>>

\* PATCH /api/admin/companies/[id]
CompaniesPATCH(session, id, name) ==
  LET done(status) == lastCo' = CoOutcome("PATCH", session, id, name, status,
                                          companies' # companies)
  IN /\ IF CompanyMutation(session) # "ok" \/ ~companies[id].exists
          THEN UNCHANGED companies /\ done("500")
        ELSE /\ companies' = [companies EXCEPT ![id].name =
                                IF name # Undef THEN name ELSE @]
             /\ done("200")
     /\ UNCHANGED <<userVars, reportVars, workerVars, uiVars>>

\* DELETE /api/admin/companies/[id]
CompaniesDELETE(session, id) ==
  LET done(status) == lastCo' = CoOutcome("DELETE", session, id, Undef, status,
                                          companies' # companies)
  IN /\ IF CompanyMutation(session) # "ok" \/ ~companies[id].exists
          THEN UNCHANGED companies /\ done("500")
        ELSE /\ companies' = [companies EXCEPT ![id] = AbsentCompany]
             /\ done("200")
     /\ UNCHANGED <<userVars, reportVars, workerVars, uiVars>>

\* const client = createServerClient(); await client.models.Company.list():
\* a TypeError when client.models is undefined, otherwise the companies the
\* data layer lets the session read.
CompanyList(session) ==
  IF createServerClient.promise THEN [thrown |-> TRUE, data |-> {}]
  ELSE [thrown |-> FALSE,
        data |-> IF CompanyModelAllows(session.groups, "read")
                   THEN {c \in CompanyIds : companies[c].exists} ELSE {}]

\* GET /api/admin/companies
CompaniesGET(session) ==
  /\ lastCo' = IF CompanyList(session).thrown
                 THEN CoOutcome("GET", session, Undef, Undef, "500", FALSE)
                 ELSE [CoOutcome("GET", session, Undef, Undef, "200", FALSE)
                         EXCEPT !.returned = CompanyList(session).data]
  /\ UNCHANGED <<companies, userVars, reportVars, workerVars, uiVars>>

NextCompanies ==
  \/ \E t \in SessionTokens : CompaniesGET(t)
  \/ \E t \in SessionTokens, n \in CompanyNames \cup {Undef} : CompaniesPOST(t, n)
  \/ \E t \in SessionTokens, c \in CompanyIds, n \in CompanyNames \cup {Undef} :
       CompaniesPATCH(t, c, n)
  \/ \E t \in SessionTokens, c \in CompanyIds : CompaniesDELETE(t, c)

\* --------------------------------------------------- incident-report routes
\* A key of the storage bucket: the analysed image of an output URI, copied
\* for a report by a worker run (the random suffix makes every copy a new key).
NoKey == [report |-> 0, uri |-> 0, run |-> 0]

\* aggregatedData of the worker; final_assessment is the list the code joins
\* with "; ", incomplete stands for the text "Assessment Incomplete".
EmptyAggregate ==
  [detections |-> <<>>, evidence_bullets |-> <<>>, fraud_signals |-> <<>>,
   final_assessment |-> [incomplete |-> FALSE, parts |-> <<>>],
   peril_match |-> [match |-> "unknown", reason |-> 0],
   all_local_paths |-> {}]

\* The aiAnalysis blob of a report: a status marker, or the consolidated data.
Analysis(status, error, data) == [status |-> status, error |-> error, data |-> data]

NoAnalysis == Analysis("none", "", EmptyAggregate)

AbsentReport == [exists |-> FALSE, companyId |-> Undef, status |-> "",
                 photoUrls |-> <<>>, aiAnalysis |-> NoAnalysis]

\* The routes that hand the request to the data layer do not read the session.
NoSession == [groups |-> {}, companyId |-> Undef]

\* The record of a call of an incident-report route.
RepOutcome(op, session, status, returned) ==
  [op |-> op, groups |-> session.groups, companyId |-> session.companyId,
   status |-> status, returned |-> returned,
   found |-> FALSE, hasPhotos |-> FALSE, unchanged |-> TRUE, invoked |-> FALSE,
   analyzing |-> FALSE, aiPaths |-> {}]

InitReports ==
  /\ reports = [r \in ReportIds |-> AbsentReport]
  /\ lastRep = RepOutcome("none", NoSession, "ok", {})

FreeReportIds == {r \in ReportIds : ~reports[r].exists}

\* The photo paths of an upload of n photos.
PhotoPaths(n) == [i \in 1..n |-> i]

\* POST /api/incident-reports
ReportsPOST(session, complete, companyId, nPhotos) ==
  /\ IF ~complete
       THEN UNCHANGED reports /\ lastRep' = RepOutcome("POST", session, "400", {})
     ELSE IF FreeReportIds = {}
       THEN UNCHANGED reports /\ lastRep' = RepOutcome("POST", session, "500", {})
     ELSE LET id == CHOOSE r \in FreeReportIds : \A q \in FreeReportIds : r <= q
          IN /\ reports' = [reports EXCEPT ![id] =
                              [exists |-> TRUE, companyId |-> companyId,
                               status |-> "submitted", photoUrls |-> PhotoPaths(nPhotos),
                               aiAnalysis |-> Analysis("pending", "", EmptyAggregate)]]
             /\ lastRep' = RepOutcome("POST", session, "201", {id})
  /\ UNCHANGED <<userVars, companyVars, workerVars, uiVars>>

\* listIncidentReports(limit: 1000) with the API key
listIncidentReports == {r \in ReportIds : reports[r].exists}

\* GET /api/incident-reports
ReportsGET(session) ==
  /\ lastRep' = RepOutcome("GET", session, "200", listIncidentReports)
  /\ UNCHANGED <<reports, userVars, companyVars, workerVars, uiVars>>

\* The values a request can put in the status field; "" is "field not sent".
StatusInputs == {"", "submitted", "in_review", "resolved", "closed"}

\* A PATCH body without its id: companyId sent or not (sent as Undef is null),
\* status sent or not, some other field of the report sent or not.
PatchBodies ==
  {[setCompany |-> co[1], companyId |-> co[2], status |-> st, other |-> o] :
     co \in {<<FALSE, Undef>>} \cup {<<TRUE, c>> : c \in CompanyIds \cup {Undef}},
     st \in StatusInputs, o \in BOOLEAN}

\* Object.keys(body).filter(key => key !== "id").length === 0
NoFieldsToUpdate(body) == ~body.setCompany /\ body.status = "" /\ ~body.other

\* The status field of the IncidentReport model is a string: the data layer
\* stores whatever string it is sent.
StatusFieldAccepts(status) == status \in STRING

\* client.models.IncidentReport.update({ id, ...updateData }): the fields sent
\* replace the stored ones, the others stay.
IncidentReportUpdate(id, body) ==
  [reports EXCEPT
     ![id].companyId = IF body.setCompany THEN body.companyId ELSE @,
     ![id].status = IF body.status # "" THEN body.status ELSE @]

\* PATCH /api/incident-reports/[id]. accepted: the data layer applies the
\* update (it answers with errors otherwise).
ReportsPATCH(id, body, accepted) ==
  /\ IF NoFieldsToUpdate(body)
       THEN UNCHANGED reports /\ lastRep' = RepOutcome("PATCH", NoSession, "400", {id})
     ELSE IF ~reports[id].exists \/ ~accepted \/ ~StatusFieldAccepts(body.status)
       THEN UNCHANGED reports /\ lastRep' = RepOutcome("PATCH", NoSession, "500", {id})
     ELSE /\ reports' = IncidentReportUpdate(id, body)
          /\ lastRep' = RepOutcome("PATCH", NoSession, "200", {id})
  /\ UNCHANGED <<userVars, companyVars, workerVars, uiVars>>

\* formSchema.status of the edit modal
ModalStatuses == {"submitted", "in_review", "resolved"}

\* existingPhotos once the photos marked for deletion are taken out
KeptPhotos(photoUrls, kept) ==
  LET F[i \in 0..Len(photoUrls)] ==
        IF i = 0 THEN <<>>
        ELSE IF i \in kept THEN Append(F[i - 1], photoUrls[i]) ELSE F[i - 1]
  IN F[Len(photoUrls)]

\* The keys of n photos uploaded from the modal.
NewPhotoPaths(n) == [i \in 1..n |-> MaxPhotos + i]

\* onSubmit of the edit modal, for a report the modal has loaded. status: the
\* form's status, "" when the form has none; kept: the indices of the photos
\* not marked for deletion; nNew: the new photos whose upload succeeded;
\* accepted: the data layer applies the update. The photo ceiling of the
\* modal is scaled to MaxPhotos.
EditModalSave(id, status, kept, nNew, accepted) ==
  LET existingPhotos == KeptPhotos(reports[id].photoUrls, kept)
      room == MaxPhotos - Len(existingPhotos)
      finalPhotos == existingPhotos \o NewPhotoPaths(IF nNew < room THEN nNew ELSE room)
  IN /\ reports[id].exists
     /\ status \in ModalStatuses \cup {""}
     /\ reports' = IF accepted
                     THEN [reports EXCEPT ![id].status = IF status # "" THEN status ELSE @,
                                          ![id].photoUrls = finalPhotos]
                     ELSE reports
     /\ lastRep' = RepOutcome("modal", NoSession, IF accepted THEN "ok" ELSE "errors", {id})
     /\ UNCHANGED <<userVars, companyVars, workerVars, uiVars>>

NextReports ==
  \/ \E t \in SessionTokens, ok \in BOOLEAN, c \in CompanyIds \cup {Undef}, n \in 0..MaxPhotos :
       ReportsPOST(t, ok, c, n)
  \/ \E t \in SessionTokens : ReportsGET(t)
  \/ \E id \in ReportIds, b \in PatchBodies, ok \in BOOLEAN :
       ReportsPATCH(id, b, ok)
  \/ \E id \in ReportIds, st \in ModalStatuses \cup {""}, ok \in BOOLEAN :
       EditModalSave(id, st, 1..Len(reports[id].photoUrls), 0, ok)

\* -------------------------------------------------- background worker
WorkerIds == 1..NumWorkers

\* What the inference endpoint can answer for one photo.
Detection(uri) == [output_s3_uri |-> uri, local_output_path |-> NoKey]

AIResults ==
  { [detections |-> <<Detection(1)>>, evidence_bullets |-> <<1>>, fraud_signals |-> <<>>,
     final_assessment |-> 1, peril_match |-> [match |-> "hail", reason |-> 1]],
    [detections |-> <<Detection(1), Detection(2)>>, evidence_bullets |-> <<1, 2>>,
     fraud_signals |-> <<1>>, final_assessment |-> 2,
     peril_match |-> [match |-> "unknown", reason |-> 2]],
    [detections |-> <<>>, evidence_bullets |-> <<>>, fraud_signals |-> <<>>,
     final_assessment |-> 0, peril_match |-> [match |-> "", reason |-> 0]] }

NoResult == [detections |-> <<>>, evidence_bullets |-> <<>>, fraud_signals |-> <<>>,
             final_assessment |-> 0, peril_match |-> [match |-> "", reason |-> 0]]

\* kind: "ok", "notOk" (!aiResponse.ok), "errorField" (resultData.error),
\* "throws" (fetch or json() throws)
PhotoOutcomes ==
  {[kind |-> "ok", result |-> r] : r \in AIResults}
    \cup {[kind |-> k, result |-> NoResult] : k \in {"notOk", "errorField", "throws"}}

IdleWorker ==
  [pc |-> "idle", reportId |-> 0, run |-> 0, photoUrls |-> <<>>, index |-> 0,
   inFlight |-> {}, calls |-> <<>>, outcomes |-> <<>>, results |-> <<>>,
   aggregatedData |-> EmptyAggregate, uniqueAssessments |-> <<>>,
   uniqueOutputUris |-> <<>>, uriToLocalKeyMap |-> {}, copies |-> <<>>,
   error |-> "", sent |-> <<>>, written |-> <<>>]

InitWorker ==
  /\ workers = [w \in WorkerIds |-> IdleWorker]
  /\ bucket = {}
  /\ runs = 0

\* Set.add: insertion order, no duplicate
SetAdd(q, x) == IF \E i \in 1..Len(q) : q[i] = x THEN q ELSE Append(q, x)

RECURSIVE SetAddAll(_, _)
SetAddAll(q, items) ==
  IF items = <<>> THEN q ELSE SetAddAll(SetAdd(q, Head(items)), Tail(items))

\* Array.from(new Set(q))
Dedupe(q) == SetAddAll(<<>>, q)

\* "Aggregate Results" for one answer
AggregateFirstPeril(agg, res) ==
  [agg EXCEPT
     !.detections = @ \o res.detections,
     !.evidence_bullets = @ \o res.evidence_bullets,
     !.fraud_signals = @ \o res.fraud_signals,
     !.peril_match = IF res.peril_match.match \notin {"", "unknown"} /\ @.match = "unknown"
                       THEN res.peril_match ELSE @]

Aggregate(agg, res) ==
  [agg EXCEPT
     !.detections = @ \o res.detections,
     !.evidence_bullets = @ \o res.evidence_bullets,
     !.fraud_signals = @ \o res.fraud_signals,
     !.peril_match = IF res.peril_match.match \notin {"", "unknown"}
                       THEN res.peril_match ELSE @]

\* "Finalize aggregated data"
Finalize(agg, uniqueAssessments) ==
  [agg EXCEPT
     !.final_assessment = IF Len(uniqueAssessments) > 0
                            THEN [incomplete |-> FALSE, parts |-> uniqueAssessments]
                            ELSE [incomplete |-> TRUE, parts |-> <<>>],
     !.evidence_bullets = Dedupe(@),
     !.fraud_signals = Dedupe(@)]

\* uniqueOutputUris of the detections, in insertion order
OutputUrisRepeated(detections) ==
  SelectSeq([i \in 1..Len(detections) |-> detections[i].output_s3_uri], LAMBDA u : u # 0)

OutputUris(detections) ==
  SetAddAll(<<>>, SelectSeq([i \in 1..Len(detections) |-> detections[i].output_s3_uri],
                            LAMBDA u : u # 0))

\* Does the failure of one photo abort the run?
photoFailureAbortsOnThrow(outcome) == outcome.kind = "throws"

photoFailureAborts(outcome) == FALSE

\* The index the loop goes on with after the answer for photo `index`.
nextIndexRetrying(index, outcome) == IF outcome.kind = "ok" THEN index + 1 ELSE index

nextIndex(index, outcome) == index + 1

\* The handler is entered with an event naming a report.
Started(id, run) == [IdleWorker EXCEPT !.pc = "fetch", !.reportId = id, !.run = run]

FreeWorker(w) == workers[w].pc \in {"idle", "done", "thrown"}

\* Direct invocation of the worker function.
InvokeWorker(w, id) ==
  /\ FreeWorker(w)
  /\ runs < MaxRuns
  /\ runs' = runs + 1
  /\ workers' = [workers EXCEPT ![w] = Started(id, runs + 1)]
  /\ UNCHANGED <<bucket, userVars, companyVars, reportVars, uiVars>>

\* What can go wrong in a call of the analyze route: the report cannot be
\* fetched, the 'analyzing' mutation throws, the deployment outputs do not
\* name the analyze function, the invocation of the function throws.
AnalyzeFaults == {"none", "fetch", "mark", "config", "invoke"}

\* The answer the route gives before it touches anything, "" when it goes on.
AnalyzeRefusalNoPhotoCheck(found, nPhotos) ==
  IF ~found THEN "404" ELSE ""

AnalyzeRefusal(found, nPhotos) ==
  IF ~found THEN "404"
  ELSE IF nPhotos = 0 THEN "400"
  ELSE ""

\* POST /api/incident-reports/[id]/analyze
AnalyzePOST(id, fault) ==
  LET analyzing == [reports EXCEPT ![id].aiAnalysis = Analysis("analyzing", "", EmptyAggregate)]
      found == reports[id].exists /\ fault # "fetch"
      refusal == AnalyzeRefusal(found, Len(reports[id].photoUrls))
      done(status) ==
        lastRep' = [RepOutcome("analyze", NoSession, status, {id}) EXCEPT
                      !.found = found, !.hasPhotos = Len(reports[id].photoUrls) > 0,
                      !.unchanged = reports' = reports, !.invoked = runs' # runs,
                      !.analyzing = reports'[id].aiAnalysis.status = "analyzing"]
  IN /\ IF refusal # ""
          THEN /\ UNCHANGED <<reports, workers, runs>>
               /\ done(refusal)
        ELSE IF fault = "mark"
          THEN /\ UNCHANGED <<reports, workers, runs>>
               /\ done("500")
        ELSE IF fault \in {"config", "invoke"}
          THEN /\ reports' = analyzing
               /\ UNCHANGED <<workers, runs>>
               /\ done("500")
        ELSE /\ runs < MaxRuns
             /\ \E w \in DOMAIN workers :
                  /\ FreeWorker(w)
                  /\ workers' = [workers EXCEPT ![w] = Started(id, runs + 1)]
             /\ runs' = runs + 1
             /\ reports' = analyzing
             /\ done("200")
     /\ UNCHANGED <<bucket, userVars, companyVars, uiVars>>

\* "1. Fetch report details"
WorkerFetch(w) ==
  LET me == workers[w]
      report == reports[me.reportId]
  IN /\ me.pc = "fetch"
     /\ workers' = [workers EXCEPT ![w] =
          IF ~report.exists
            THEN [me EXCEPT !.pc = "failwrite", !.error = "not found"]
          ELSE IF Len(report.photoUrls) = 0
            THEN [me EXCEPT !.pc = "done"]
          ELSE [me EXCEPT !.pc = "loop", !.photoUrls = report.photoUrls, !.index = 1]]
     /\ UNCHANGED <<bucket, runs, userVars, companyVars, reportVars, uiVars>>

\* The loop sends the request for the photo at `index`.
WorkerCallStart(w) ==
  LET me == workers[w]
  IN /\ me.pc = "loop"
     /\ me.index <= Len(me.photoUrls)
     /\ workers' = [workers EXCEPT ![w] =
          [me EXCEPT !.pc = "called",
                     !.inFlight = @ \cup {me.index},
                     !.calls = Append(@, me.photoUrls[me.index])]]
     /\ UNCHANGED <<bucket, runs, userVars, companyVars, reportVars, uiVars>>

\* After the last photo: finalize, then copy when there are detections.
AfterLoop(me) ==
  LET agg == Finalize(me.aggregatedData, me.uniqueAssessments)
      uris == OutputUris(agg.detections)
  IN IF Len(agg.detections) > 0 /\ uris # <<>>
       THEN [me EXCEPT !.pc = "copy", !.aggregatedData = agg, !.uniqueOutputUris = uris]
     ELSE [me EXCEPT !.pc = "write", !.aggregatedData = agg]

\* The answer for the photo in flight arrives.
WorkerCallEnd(w, outcome) ==
  LET me == workers[w]
      got == [me EXCEPT
                !.inFlight = @ \ {me.index},
                !.outcomes = Append(@, outcome.kind),
                !.results = Append(@, outcome.result),
                !.index = nextIndex(me.index, outcome),
                !.aggregatedData = IF outcome.kind = "ok" THEN Aggregate(@, outcome.result) ELSE @,
                !.uniqueAssessments = IF outcome.kind = "ok" /\ outcome.result.final_assessment # 0
                                        THEN SetAdd(@, outcome.result.final_assessment) ELSE @]
  IN /\ me.pc = "called"
     /\ workers' = [workers EXCEPT ![w] =
          IF outcome.kind # "ok" /\ photoFailureAborts(outcome)
            THEN [got EXCEPT !.pc = "failwrite", !.error = "photo failed"]
          ELSE IF got.index > Len(me.photoUrls) THEN AfterLoop(got)
          ELSE [got EXCEPT !.pc = "loop"]]
     /\ UNCHANGED <<bucket, runs, userVars, companyVars, reportVars, uiVars>>

\* "Update detections with local paths"
WithLocalPaths(agg, map) ==
  LET keyOf(u) == IF \E p \in map : p[1] = u
                    THEN (CHOOSE p \in map : p[1] = u)[2] ELSE NoKey
      d == agg.detections
  IN [agg EXCEPT
        !.detections = [i \in 1..Len(d) |->
                          [output_s3_uri |-> d[i].output_s3_uri,
                           local_output_path |->
                             IF d[i].output_s3_uri # 0 THEN keyOf(d[i].output_s3_uri) ELSE NoKey]],
        !.all_local_paths = {p[2] : p \in map}]

\* "3. Copy Analyzed Images": one output URI per step; copied: GetObject and
\* the upload both succeeded.
WorkerCopy(w, copied) ==
  LET me == workers[w]
      uri == Head(me.uniqueOutputUris)
      key == [report |-> me.reportId, uri |-> uri, run |-> me.run]
      map == IF copied THEN me.uriToLocalKeyMap \cup {<<uri, key>>} ELSE me.uriToLocalKeyMap
      rest == Tail(me.uniqueOutputUris)
  IN /\ me.pc = "copy"
     /\ bucket' = IF copied THEN bucket \cup {key} ELSE bucket
     /\ workers' = [workers EXCEPT ![w] =
          IF rest = <<>>
            THEN [me EXCEPT !.pc = "write", !.uniqueOutputUris = rest, !.uriToLocalKeyMap = map,
                            !.copies = Append(@, <<uri, copied>>),
                            !.aggregatedData = WithLocalPaths(@, map)]
          ELSE [me EXCEPT !.uniqueOutputUris = rest, !.uriToLocalKeyMap = map,
                          !.copies = Append(@, <<uri, copied>>)]]
     /\ UNCHANGED <<runs, userVars, companyVars, reportVars, uiVars>>

\* updateIncidentReport as the worker sends it: aiAnalysis and status.
WorkerUpdateKeepsStatus(id, analysis) ==
  IF reports[id].exists
    THEN [reports EXCEPT ![id].aiAnalysis = analysis]
    ELSE reports

\* An update that adds the detections sent to the stored ones.
WorkerUpdateMerging(id, analysis) ==
  IF reports[id].exists
    THEN [reports EXCEPT
            ![id].aiAnalysis =
               [analysis EXCEPT !.data.detections = reports[id].aiAnalysis.data.detections \o @],
            ![id].status = "submitted"]
    ELSE reports

WorkerUpdate(id, analysis) ==
  IF reports[id].exists
    THEN [reports EXCEPT ![id].aiAnalysis = analysis, ![id].status = "submitted"]
    ELSE reports

\* The worker's record of the writes the data layer applied: the status of
\* the report before the write and after it, the marker of the aiAnalysis
\* the write replaced, and the aiAnalysis the report holds after it.
Written(me, response) ==
  IF response = "applied" /\ reports[me.reportId].exists
    THEN Append(me.written,
                [status |-> <<reports[me.reportId].status, reports'[me.reportId].status>>,
                 was |-> reports[me.reportId].aiAnalysis.status,
                 aiAnalysis |-> reports'[me.reportId].aiAnalysis])
    ELSE me.written

\* "4. Update Report with Results". response: "applied" (200, mutation done),
\* "okErrors" (200 carrying GraphQL errors), "notOk" (non-2xx), "throws".
WorkerWriteBack(w, response) ==
  LET me == workers[w]
      blob == Analysis("complete", "", me.aggregatedData)
  IN /\ me.pc = "write"
     /\ reports' = IF response = "applied" THEN WorkerUpdate(me.reportId, blob) ELSE reports
     /\ workers' = [workers EXCEPT ![w] =
          IF response \in {"applied", "okErrors"}
            THEN [me EXCEPT !.pc = "done", !.sent = Append(@, blob),
                            !.written = Written(me, response)]
          ELSE [me EXCEPT !.pc = "failwrite", !.sent = Append(@, blob),
                          !.error = "update failed"]]
     /\ UNCHANGED <<lastRep, bucket, runs, userVars, companyVars, uiVars>>

\* The error the handler ends with after the failure write got `response`.
rethrownReplaced(error, response) ==
  IF response = "throws" THEN "log failed" ELSE error

rethrown(error, response) == error

\* catch: "Attempt to mark as failed in the DB", then rethrow.
WorkerFailWrite(w, response) ==
  LET me == workers[w]
      blob == Analysis("failed", me.error, EmptyAggregate)
  IN /\ me.pc = "failwrite"
     /\ reports' = IF response = "applied" THEN WorkerUpdate(me.reportId, blob) ELSE reports
     /\ workers' = [workers EXCEPT ![w] =
          [me EXCEPT !.pc = "thrown", !.sent = Append(@, blob),
                     !.written = Written(me, response),
                     !.error = rethrown(@, response)]]
     /\ UNCHANGED <<lastRep, bucket, runs, userVars, companyVars, uiVars>>

UpdateResponses == {"applied", "okErrors", "notOk", "throws"}

NextWorker ==
  \/ \E w \in WorkerIds, id \in ReportIds : InvokeWorker(w, id)
  \/ \E id \in ReportIds, f \in AnalyzeFaults : AnalyzePOST(id, f)
  \/ \E w \in WorkerIds : WorkerFetch(w)
  \/ \E w \in WorkerIds : WorkerCallStart(w)
  \/ \E w \in WorkerIds, o \in PhotoOutcomes : WorkerCallEnd(w, o)
  \/ \E w \in WorkerIds, ok \in BOOLEAN : WorkerCopy(w, ok)
  \/ \E w \in WorkerIds, r \in UpdateResponses : WorkerWriteBack(w, r)
  \/ \E w \in WorkerIds, r \in UpdateResponses : WorkerFailWrite(w, r)

\* A table as POST /api/incident-reports leaves it: the first report created
\* with some number of photos, the others not created.
InitReportsUploaded ==
  /\ \E n \in 0..MaxPhotos :
       reports = [r \in ReportIds |->
                    IF r = 1
                      THEN [exists |-> TRUE, companyId |-> 1, status |-> "submitted",
                            photoUrls |-> PhotoPaths(n),
                            aiAnalysis |-> Analysis("pending", "", EmptyAggregate)]
                      ELSE AbsentReport]
  /\ lastRep = RepOutcome("none", NoSession, "ok", {})

\* ------------------------------------------------------ edit-report modal
\* How many photos the modal lets a user mark for deletion in the model.
MaxMarked == 2

\* The record of an onSubmit: the paths removed from storage, the photoUrls
\* sent to the report, whether the data layer applied the update.
NoSave == [saved |-> FALSE, deleted |-> {}, photoUrls |-> <<>>, applied |-> FALSE]

\* The component as it mounts: closed, its useState values empty.
ClosedModal ==
  [isOpen |-> FALSE, reportId |-> 0, existingPhotos |-> <<>>, photosToDelete |-> <<>>,
   newPhotos |-> 0, lastSave |-> NoSave]

\* q without its element at index
RemoveAt(q, index) == [i \in 1..(Len(q) - 1) |-> IF i < index THEN q[i] ELSE q[i + 1]]

\* The parent sets isOpen for a report and the effect runs fetchReport.
\* fetched: the get answers with the report; otherwise the catch logs and the
\* state stays as it was.
fetchReport(id, fetched) ==
  /\ ~modal.isOpen
  /\ modal' = [modal EXCEPT
                 !.isOpen = TRUE, !.reportId = id,
                 !.existingPhotos = IF fetched /\ reports[id].exists
                                      THEN reports[id].photoUrls ELSE @]
  /\ UNCHANGED <<companyContext, userVars, companyVars, reportVars, workerVars>>

handleDeleteExistingPhoto(index) ==
  /\ modal.isOpen
  /\ index \in 1..Len(modal.existingPhotos)
  /\ Len(modal.photosToDelete) < MaxMarked
  /\ modal' = [modal EXCEPT
                 !.photosToDelete = Append(@, modal.existingPhotos[index]),
                 !.existingPhotos = RemoveAt(@, index)]
  /\ UNCHANGED <<companyContext, userVars, companyVars, reportVars, workerVars>>

\* One valid file is picked; the ceiling of the modal is scaled to MaxPhotos.
handleAddNewPhotos ==
  /\ modal.isOpen
  /\ Len(modal.existingPhotos) + modal.newPhotos + 1 <= MaxPhotos
  /\ modal' = [modal EXCEPT !.newPhotos = @ + 1]
  /\ UNCHANGED <<companyContext, userVars, companyVars, reportVars, workerVars>>

\* onClose without saving. unmounted: the parent stops rendering the
\* component, so that the next opening mounts a new one.
ModalClose(unmounted) ==
  /\ modal.isOpen
  /\ modal' = IF unmounted THEN [ClosedModal EXCEPT !.lastSave = modal.lastSave]
              ELSE [modal EXCEPT !.isOpen = FALSE]
  /\ UNCHANGED <<companyContext, userVars, companyVars, reportVars, workerVars>>

\* What the update of the modal can be answered with.
SaveResponses == {"applied", "errors", "throws"}

\* onSubmit. status: the form's status; failed: the paths whose remove threw;
\* uploads: the new photos whose upload succeeded; response: the answer of
\* the update.
onSubmit(status, failed, uploads, response) ==
  LET id == modal.reportId
      room == MaxPhotos - Len(modal.existingPhotos)
      limitedNewPhotos == IF modal.newPhotos < room THEN modal.newPhotos ELSE room
      finalPhotos == modal.existingPhotos \o NewPhotoPaths(uploads)
      applied == response = "applied" /\ reports[id].exists
  IN /\ modal.isOpen
     /\ failed \subseteq SeqRange(modal.photosToDelete)
     /\ uploads \in 0..limitedNewPhotos
     /\ reports' = IF applied
                     THEN [reports EXCEPT ![id].status = status, ![id].photoUrls = finalPhotos]
                     ELSE reports
     /\ modal' = [modal EXCEPT
                    !.isOpen = (response = "throws"),
                    !.lastSave = [saved |-> TRUE,
                                  deleted |-> SeqRange(modal.photosToDelete) \ failed,
                                  photoUrls |-> finalPhotos, applied |-> applied]]
     /\ UNCHANGED <<lastRep, companyContext, userVars, companyVars, workerVars>>

NextModal ==
  \/ \E id \in ReportIds, fetched \in BOOLEAN : fetchReport(id, fetched)
  \/ \E index \in 1..MaxPhotos : handleDeleteExistingPhoto(index)
  \/ handleAddNewPhotos
  \/ \E unmounted \in BOOLEAN : ModalClose(unmounted)
  \/ \E st \in ModalStatuses, failed \in SUBSET SeqRange(modal.photosToDelete),
        uploads \in 0..MaxPhotos, r \in SaveResponses :
       onSubmit(st, failed, uploads, r)

\* ------------------------------------------------------- company context
\* What useUserRole gives the provider: still loading, a SuperAdmin, or
\* another user with its companyId (Undef when it has none).
UserRoles ==
  {[roleLoading |-> TRUE, isSuperAdmin |-> FALSE, companyId |-> Undef],
   [roleLoading |-> FALSE, isSuperAdmin |-> TRUE, companyId |-> Undef]}
    \cup {[roleLoading |-> FALSE, isSuperAdmin |-> FALSE, companyId |-> c] :
            c \in CompanyIds \cup {Undef}}

\* The lists of companies an answer can carry.
CompanyLists ==
  {<<>>} \cup {<<c>> : c \in CompanyIds}
    \cup {q \in {<<c, d>> : c \in CompanyIds, d \in CompanyIds} : q[1] # q[2]}

\* What fetch("/api/admin/companies") can end with: an OK answer with a
\* list, another answer, an exception.
FetchAnswers ==
  {[kind |-> "ok", companies |-> q] : q \in CompanyLists}
    \cup {[kind |-> k, companies |-> <<>>] : k \in {"notOk", "throws"}}

NoRefresh ==
  [completed |-> FALSE, failed |-> FALSE, isSuperAdmin |-> FALSE, companyId |-> Undef,
   fetched |-> <<>>, companies |-> <<>>, currentCompany |-> Undef]

\* The provider as it mounts; Undef is the null currentCompany.
InitialContext ==
  [role |-> [roleLoading |-> TRUE, isSuperAdmin |-> FALSE, companyId |-> Undef],
   currentCompany |-> Undef, companies |-> <<>>, isLoading |-> TRUE,
   lastRefresh |-> NoRefresh]

InitUi ==
  /\ modal = ClosedModal
  /\ companyContext = InitialContext

\* useUserRole gives new values (the role has loaded, another user signed in).
UserRoleChanges(role) ==
  /\ role # companyContext.role
  /\ companyContext' = [companyContext EXCEPT !.role = role]
  /\ UNCHANGED <<modal, userVars, companyVars, reportVars, workerVars>>

\* currentCompany after an OK answer
currentCompanyAfter(role, fetchedCompanies, currentCompany) ==
  IF ~role.isSuperAdmin /\ role.companyId # Undef
    THEN IF role.companyId \in SeqRange(fetchedCompanies) THEN role.companyId ELSE Undef
  ELSE IF role.isSuperAdmin /\ Len(fetchedCompanies) > 0 THEN fetchedCompanies[1]
  ELSE currentCompany

\* refreshCompanies, from the fetch to its end (it returns at once while the
\* role is loading).
refreshCompanies(answer) ==
  LET failed == answer.kind # "ok"
      after == IF failed
                 THEN [companyContext EXCEPT !.companies = <<>>, !.currentCompany = Undef,
                                      !.isLoading = FALSE]
                 ELSE [companyContext EXCEPT
                         !.companies = answer.companies,
                         !.currentCompany =
                            currentCompanyAfter(companyContext.role, answer.companies, @),
                         !.isLoading = FALSE]
  IN /\ ~companyContext.role.roleLoading
     /\ companyContext' = [after EXCEPT
                      !.lastRefresh =
                         [completed |-> TRUE, failed |-> failed,
                          isSuperAdmin |-> companyContext.role.isSuperAdmin,
                          companyId |-> companyContext.role.companyId,
                          fetched |-> answer.companies,
                          companies |-> after.companies,
                          currentCompany |-> after.currentCompany]]
     /\ UNCHANGED <<modal, userVars, companyVars, reportVars, workerVars>>

NextContext ==
  \/ \E role \in UserRoles : UserRoleChanges(role)
  \/ \E answer \in FetchAnswers : refreshCompanies(answer)

\* ------------------------------------------------- deletion of a report
\* outputs.storage.bucket_name: the storage bucket of the deployment, the one
\* the analyze route hands to the worker and the worker uploads its copies to.
StorageBucketName == "amplify-storage"

\* bucketName of the DELETE route
bucketName == "roof-inspection-poc-output"

\* aiPathsToDelete: all_local_paths and the detections' local_output_path of
\* the parsed aiAnalysis (the status markers carry neither).
aiPathsToDelete(analysis) ==
  LET d == analysis.data.detections
  IN (analysis.data.all_local_paths
        \cup {d[i].local_output_path : i \in 1..Len(d)}) \ {NoKey}

\* The storage bucket after DeleteObjectCommand was sent for each of `keys`
\* with Bucket: name; the commands for the keys in `failed` threw.
DeleteObjects(name, keys, failed) ==
  IF name = StorageBucketName THEN bucket \ (keys \ failed) ELSE bucket

\* DELETE /api/incident-reports/[id]. fetched: the get for the report answers
\* with it; failed: the keys whose DeleteObjectCommand throws; deleted: the
\* data layer deletes the record (it answers with errors otherwise).
ReportsDELETE(id, fetched, failed, deleted) ==
  LET reportToDelete == IF fetched /\ reports[id].exists THEN reports[id] ELSE AbsentReport
      paths == aiPathsToDelete(reportToDelete.aiAnalysis)
      ok == deleted /\ reports[id].exists
  IN /\ failed \subseteq paths
     /\ bucket' = DeleteObjects(bucketName, paths, failed)
     /\ reports' = IF ok THEN [reports EXCEPT ![id] = AbsentReport] ELSE reports
     /\ lastRep' = [RepOutcome("DELETE", NoSession, IF ok THEN "200" ELSE "500", {id})
                      EXCEPT !.found = reportToDelete.exists, !.aiPaths = paths]
     /\ UNCHANGED <<workers, runs, userVars, companyVars, uiVars>>

\* The worker together with the deletion of reports.
NextCascade ==
  \/ NextWorker
  \/ \E id \in ReportIds, fetched \in BOOLEAN, deleted \in BOOLEAN :
       \E failed \in SUBSET aiPathsToDelete(reports[id].aiAnalysis) :
         ReportsDELETE(id, fetched, failed, deleted)

\* The worker together with the status a user saves in the edit modal.
NextStatus ==
  \/ NextWorker
  \/ \E id \in ReportIds, st \in ModalStatuses, ok \in BOOLEAN :
       EditModalSave(id, st, 1..Len(reports[id].photoUrls), 0, ok)

\* ------------------------------------------- two analyses of one report
\* The invocations of the worker function that run side by side.
NumRacers == 2

\* The photos of the report the runs are about.
RacePhotos == 1

RacerIds == 1..NumRacers

\* Report 1 was submitted with its photos; no worker runs yet.
InitRace ==
  /\ InitUsers /\ InitCompanies /\ InitUi
  /\ \E n \in 1..RacePhotos :
       reports = [r \in ReportIds |->
                    IF r = 1
                      THEN [exists |-> TRUE, companyId |-> 1, status |-> "submitted",
                            photoUrls |-> PhotoPaths(n),
                            aiAnalysis |-> Analysis("pending", "", EmptyAggregate)]
                      ELSE AbsentReport]
  /\ lastRep = RepOutcome("none", NoSession, "ok", {})
  /\ workers = [w \in RacerIds |-> IdleWorker]
  /\ bucket = {}
  /\ runs = 0

\* The analyze route is called for report 1, whatever its aiAnalysis is, and
\* every invocation it makes runs on its own.
NextRace ==
  \/ AnalyzePOST(1, "none")
  \/ \E w \in RacerIds : WorkerFetch(w)
  \/ \E w \in RacerIds : WorkerCallStart(w)
  \/ \E w \in RacerIds, o \in PhotoOutcomes : WorkerCallEnd(w, o)
  \/ \E w \in RacerIds, ok \in BOOLEAN : WorkerCopy(w, ok)
  \/ \E w \in RacerIds, r \in UpdateResponses : WorkerWriteBack(w, r)
  \/ \E w \in RacerIds, r \in UpdateResponses : WorkerFailWrite(w, r)

\* ------------------------------------------- the consolidation on its own
\* The photos of the report whose answers are consolidated.
AggregatePhotos == 3

\* The answers of the inference endpoint, with a second kind of peril.
AggregateResults ==
  AIResults \cup
    { [detections |-> <<Detection(2)>>, evidence_bullets |-> <<2, 1>>, fraud_signals |-> <<1>>,
       final_assessment |-> 1, peril_match |-> [match |-> "wind", reason |-> 2]] }

AggregateOutcomes ==
  {[kind |-> "ok", result |-> r] : r \in AggregateResults}
    \cup {[kind |-> k, result |-> NoResult] : k \in {"notOk", "errorField", "throws"}}

\* The handler was entered for report 1, which has some photos.
InitAggregate ==
  /\ InitUsers /\ InitCompanies /\ InitUi
  /\ \E n \in 1..AggregatePhotos :
       reports = [r \in ReportIds |->
                    IF r = 1
                      THEN [exists |-> TRUE, companyId |-> 1, status |-> "submitted",
                            photoUrls |-> PhotoPaths(n),
                            aiAnalysis |-> Analysis("analyzing", "", EmptyAggregate)]
                      ELSE AbsentReport]
  /\ lastRep = RepOutcome("none", NoSession, "ok", {})
  /\ workers = [w \in WorkerIds |-> Started(1, 1)]
  /\ bucket = {}
  /\ runs = 1

\* The fetch and the per-photo loop, up to "Finalize aggregated data".
NextAggregate ==
  \/ \E w \in WorkerIds : WorkerFetch(w)
  \/ \E w \in WorkerIds : WorkerCallStart(w)
  \/ \E w \in WorkerIds, o \in AggregateOutcomes : WorkerCallEnd(w, o)

NextUsers ==
  \/ \E c \in Callers : \E s \in Sessions(c), page \in Pages :
       /\ ListUsers(c, s[1], s[2], page, TRUE)
       /\ lookup' = Lookup(IdentityOf(c, s[1]), s[2])
  \/ \E c \in Callers : \E s \in Sessions(c), e \in Emails,
        g \in GroupInputs, co \in CompanyInputs :
       /\ CreateUser(c, s[1], s[2], e, g, co[1], co[2])
       /\ lookup' = Lookup(IdentityOf(c, s[1]), s[2])
  \/ \E c \in Callers : \E s \in Sessions(c), u \in Usernames \cup {NoUser} :
       /\ DeleteUser(c, s[1], s[2], u)
       /\ lookup' = Lookup(IdentityOf(c, s[1]), s[2])
  \/ \E c \in Callers, e \in Emails \cup {NoUser}, gs \in GroupLists, co \in CompanyInputs :
       /\ RestCreateUser(c, e, gs, co[1], co[2])
       /\ lookup' = "none"
  \/ \E c \in Callers, u \in Usernames \cup {NoUser} :
       /\ RestDeleteUser(c, u)
       /\ lookup' = "none"

vars == <<pool, last, lookup, companies, lastCo, reports, lastRep, workers, bucket, runs,
         modal, companyContext>>

Init == InitUsers /\ InitCompanies /\ InitReports /\ InitWorker /\ InitUi

Next == NextUsers \/ NextRoles \/ NextCompanies \/ NextReports \/ NextWorker

Spec == Init /\ [][Next]_vars

\* The subsystems on their own: the other tables stay as deployed.
SpecUsers == Init /\ [][NextUsers]_vars

SpecRoles == Init /\ [][NextRoles]_vars

\* The company table starts with any set of companies.
InitAnyCompanies == InitUsers /\ InitCompaniesAny /\ InitReports /\ InitWorker /\ InitUi

SpecCompanies == InitAnyCompanies /\ [][NextCompanies]_vars

SpecReports == Init /\ [][NextReports]_vars

\* The worker starts from reports that were submitted with their photos.
InitUploaded ==
  InitUsers /\ InitCompanies /\ InitReportsUploaded /\ InitWorker /\ InitUi

SpecWorker == InitUploaded /\ [][NextWorker]_vars

SpecCascade == InitUploaded /\ [][NextCascade]_vars

SpecStatus == InitUploaded /\ [][NextStatus]_vars

\* An invoked worker runs on: each of its steps is taken once it can be, and
\* every call it awaits comes back, with whatever answer.
WorkerFairness ==
  /\ WF_vars(\E w \in WorkerIds : WorkerFetch(w))
  /\ WF_vars(\E w \in WorkerIds : WorkerCallStart(w))
  /\ WF_vars(\E w \in WorkerIds, o \in PhotoOutcomes : WorkerCallEnd(w, o))
  /\ WF_vars(\E w \in WorkerIds, ok \in BOOLEAN : WorkerCopy(w, ok))
  /\ WF_vars(\E w \in WorkerIds, r \in UpdateResponses : WorkerWriteBack(w, r))
  /\ WF_vars(\E w \in WorkerIds, r \in UpdateResponses : WorkerFailWrite(w, r))

SpecWorkerLive == InitUploaded /\ [][NextWorker]_vars /\ WorkerFairness

SpecRace == InitRace /\ [][NextRace]_vars

\* Each invocation runs on whatever the others do.
RaceFairness ==
  \A w \in RacerIds :
    /\ WF_vars(WorkerFetch(w))
    /\ WF_vars(WorkerCallStart(w))
    /\ WF_vars(\E o \in PhotoOutcomes : WorkerCallEnd(w, o))
    /\ WF_vars(\E ok \in BOOLEAN : WorkerCopy(w, ok))
    /\ WF_vars(\E r \in UpdateResponses : WorkerWriteBack(w, r))
    /\ WF_vars(\E r \in UpdateResponses : WorkerFailWrite(w, r))

SpecRaceLive == InitRace /\ [][NextRace]_vars /\ RaceFairness

SpecAggregate == InitAggregate /\ [][NextAggregate]_vars

SpecModal == InitUploaded /\ [][NextModal]_vars

SpecContext == Init /\ [][NextContext]_vars

----------------------------------------------------------------------------
\* C1: a listUsers call by a caller outside the SuperAdmin group returns only
\* users whose companyId is the caller's companyId, and returns nothing when
\* the caller has no companyId after the fallback lookup.
C1_ListUsersTenantScoped ==
  (last.op = "listUsers" /\ ~last.isSuperAdmin) =>
    /\ \A v \in last.users : v.companyId = last.companyId
    /\ last.companyId = Undef => last.users = {}

\* An Admin listed its own company while a user of another company is in the pool.
C1_Witness ==
  /\ last.op = "listUsers" /\ ~last.isSuperAdmin /\ last.users # {}
  /\ \E u \in Existing : pool[u].companyId \notin {Undef, last.companyId}

\* An Admin whose claims and directory lookup gave no company got an empty list.
C1_WitnessNoCompany ==
  /\ last.op = "listUsers" /\ ~last.isSuperAdmin /\ last.isAdmin
  /\ last.companyId = Undef /\ last.users = {} /\ Cardinality(Existing) > 1

\* C3: createUser by a caller outside the SuperAdmin group gives the created
\* user the caller's companyId whatever the payload supplies; a caller without
\* companyId gets Unauthorized and no user is created.
C3_CreateUserTakesCallerCompany ==
  (last.op = "createUser" /\ ~last.isSuperAdmin) =>
    /\ last.companyId = Undef => (last.status = "Unauthorized" /\ ~last.changed)
    /\ last.changed => (/\ pool[last.target].exists
                        /\ pool[last.target].companyId = last.companyId)

C3_Witness ==
  /\ last.op = "createUser" /\ ~last.isSuperAdmin /\ last.changed
  /\ pool[last.target].companyId = last.companyId /\ last.companyId # Undef

C3_WitnessUnauthorized ==
  /\ last.op = "createUser" /\ ~last.isSuperAdmin /\ last.companyId = Undef
  /\ last.status = "Unauthorized"

\* C4: deleteUser removes an existing target only for a SuperAdmin caller, or
\* an Admin caller whose companyId is the target's; every other caller gets
\* Unauthorized and the pool is unchanged.
C4_DeleteAllowed ==
  \/ last.isSuperAdmin
  \/ last.isAdmin /\ last.companyId # Undef /\ last.targetCompanyId = last.companyId

C4_DeleteUserAuthorized ==
  (last.op = "deleteUser" /\ last.targetExisted) =>
    /\ last.changed => (C4_DeleteAllowed /\ ~pool[last.target].exists)
    /\ ~C4_DeleteAllowed => (last.status = "Unauthorized" /\ ~last.changed)

\* An Admin was refused the deletion of a user of another company.
C4_Witness ==
  /\ last.op = "deleteUser" /\ last.targetExisted /\ ~last.isSuperAdmin /\ last.isAdmin
  /\ last.companyId # Undef /\ last.targetCompanyId # last.companyId
  /\ last.status = "Unauthorized"

\* An Admin deleted a user of its own company.
C4_WitnessDeleted ==
  /\ last.op = "deleteUser" /\ last.changed /\ ~last.isSuperAdmin /\ last.isAdmin
  /\ last.targetCompanyId = last.companyId

\* C5: no createUser call and no call of the user-create route made by a
\* caller outside the SuperAdmin group yields a member of the SuperAdmin group.
C5_OnlySuperAdminCreatesSuperAdmin ==
  (last.op \in {"createUser", "restCreateUser"} /\ ~last.isSuperAdmin /\ last.changed) =>
    "SuperAdmin" \notin pool[last.target].groups

\* C6: a createUser call by a caller in neither the SuperAdmin nor the Admin
\* group creates no user.
C6_OnlyAdminsCreateUsers ==
  (last.op = "createUser" /\ ~last.isSuperAdmin /\ ~last.isAdmin) => ~last.changed

\* C8: no user-deletion operation removes the account of its own caller.
C8_NoSelfDeletion ==
  (last.op \in {"deleteUser", "restDeleteUser"} /\ last.changed) =>
    last.target # last.caller

C2_ReportListTenantScoped ==
  (lastRep.op = "GET" /\ "SuperAdmin" \notin lastRep.groups) =>
    \A r \in lastRep.returned : reports[r].companyId = lastRep.companyId

\* The run has left the per-photo loop of a report that has photos.
PastLoop(me) ==
  \/ me.pc \in {"copy", "write"}
  \/ me.pc \in {"done", "failwrite", "thrown"} /\ me.photoUrls # <<>>

IsPrefix(p, q) == Len(p) <= Len(q) /\ \A i \in 1..Len(p) : p[i] = q[i]

\* C9: in a run of the worker the inference endpoint is called once per
\* photo, in photoUrls order, a call starting only after the one before has
\* finished, and no call is repeated.
C9_OneCallPerPhotoInOrder ==
  \A w \in WorkerIds :
    LET me == workers[w]
    IN /\ IsPrefix(me.calls, me.photoUrls)
       /\ Cardinality(me.inFlight) <= 1
       /\ Len(me.calls) = Len(me.outcomes) + Cardinality(me.inFlight)
       /\ PastLoop(me) => me.calls = me.photoUrls

\* A run over MaxPhotos photos finished, one of the calls having failed.
C9_Witness ==
  \E w \in WorkerIds :
    LET me == workers[w]
    IN /\ me.pc = "done" /\ Len(me.photoUrls) = MaxPhotos /\ MaxPhotos >= 2
       /\ me.calls = me.photoUrls
       /\ \E i \in 1..Len(me.outcomes) : me.outcomes[i] # "ok"

\* C10: a failed photo (non-OK response, error field, thrown exception) is
\* swallowed: every run that found photos answers for every photo and sends
\* the consolidated aiAnalysis as its first write, even when every photo failed.
C10_PhotoFailuresSwallowed ==
  \A w \in WorkerIds :
    LET me == workers[w]
    IN /\ (me.pc \in {"loop", "called"} /\ me.photoUrls # <<>>) =>
            me.index = Len(me.outcomes) + 1
       /\ (me.pc \in {"done", "failwrite", "thrown"} /\ me.photoUrls # <<>>) =>
            /\ Len(me.outcomes) = Len(me.photoUrls)
            /\ Len(me.sent) >= 1
            /\ me.sent[1] = Analysis("complete", "", me.aggregatedData)

\* Every photo of a run failed, each kind of failure among them, and the
\* report holds the consolidated blob of that run.
C10_Witness ==
  \E w \in WorkerIds :
    LET me == workers[w]
    IN /\ me.pc = "done" /\ Len(me.photoUrls) >= 2
       /\ \A i \in 1..Len(me.outcomes) : me.outcomes[i] # "ok"
       /\ \E i \in 1..Len(me.outcomes) : me.outcomes[i] = "throws"
       /\ reports[me.reportId].aiAnalysis = me.sent[1]
       /\ reports[me.reportId].aiAnalysis.status = "complete"
       /\ reports[me.reportId].aiAnalysis.data.final_assessment.incomplete

\* C11: every user of the pool that is not in the SuperAdmin group has a
\* companyId, whatever create calls (function or route) have been made.
C11_EveryUserHasCompany ==
  \A u \in Existing : "SuperAdmin" \notin pool[u].groups => pool[u].companyId # Undef

\* C12: every incident report of the table has a companyId, whatever POST and
\* PATCH calls have been made.
C12_EveryReportHasCompany ==
  \A r \in ReportIds : reports[r].exists => reports[r].companyId # Undef

\* C13: a call whose caller context came from the fallback lookup is the very
\* step the same call takes when the caller's claims carry the directory
\* record's companyId and companyName (same pool afterwards, same answer); a
\* call whose lookup failed is handled as a call of a caller with no company.
C13_FallbackStep ==
  LET c == last'.caller
      t == last'.target
  IN /\ lookup' = "made" =>
          /\ last'.op = "listUsers" =>
               \A page \in Pages :
                 ListUsers(c, "none", TRUE, page, TRUE) => ListUsers(c, "custom", TRUE, page, TRUE)
          /\ last'.op = "createUser" =>
               \A g \in GroupInputs, co \in CompanyInputs :
                 CreateUser(c, "none", TRUE, t, g, co[1], co[2])
                   => CreateUser(c, "custom", TRUE, t, g, co[1], co[2])
          /\ last'.op = "deleteUser" =>
               (DeleteUser(c, "none", TRUE, t) => DeleteUser(c, "custom", TRUE, t))
          /\ last'.companyId = pool[c].companyId
          /\ last'.companyName = pool[c].companyName
     /\ lookup' = "failed" =>
          /\ last'.companyId = Undef
          /\ ~last'.changed
          /\ last'.op = "listUsers" => last'.users = {}
          /\ last'.op = "createUser" => last'.status = "Unauthorized"
          /\ (last'.op = "deleteUser" /\ t # NoUser) => last'.status = "Unauthorized"

C13_FallbackAsIfClaims == [][C13_FallbackStep]_vars

\* A user was created in the company the fallback lookup found.
C13_Witness ==
  /\ lookup = "made"
  /\ last.op = "createUser"
  /\ last.changed
  /\ last.companyId # Undef
  /\ pool[last.target].companyId = last.companyId

\* A call whose fallback lookup failed was refused.
C13_WitnessFailed ==
  /\ lookup = "failed"
  /\ last.op = "createUser"
  /\ last.status = "Unauthorized"

\* C14: a listUsers call by a caller of the SuperAdmin group returns every
\* user of the pool.
C14_SuperAdminListsEveryUser ==
  (last.op = "listUsers" /\ last.isSuperAdmin) =>
    {v.username : v \in last.users} = Existing

\* C15: GET /api/admin/companies answers a SuperAdmin with every company of
\* the table and any other caller with the caller's own company only.
C15_CompanyListScoped ==
  lastCo.op = "GET" =>
    /\ lastCo.status = "200"
    /\ lastCo.returned =
         IF "SuperAdmin" \in lastCo.groups
           THEN {c \in CompanyIds : companies[c].exists}
           ELSE {c \in CompanyIds : companies[c].exists /\ c = lastCo.companyId}

\* C16: the status of every incident report of the table is submitted,
\* in_review or resolved.
C16_StatusIsOneOfThree ==
  \A r \in ReportIds :
    reports[r].exists => reports[r].status \in {"submitted", "in_review", "resolved"}

\* C17: when the edit-role dialog is submitted with a role that differs from
\* the user's current role and no service call fails, the route answers 200
\* and the user is a member of the group of that role.
C17_DialogRoleApplied ==
  (last.op = "editRole" /\ last.fault = "none" /\ last.role # last.currentRole) =>
    /\ last.status = "200"
    /\ last.role \in pool[last.target].groups

\* C18: whenever a report's aiAnalysis is 'analyzing', it later is something
\* else (a consolidated result or a failure), the worker's steps and the calls
\* it awaits being fair.
C18_AnalyzingEnds ==
  \A r \in ReportIds :
    (reports[r].aiAnalysis.status = "analyzing") ~> (reports[r].aiAnalysis.status # "analyzing")

\* The error that sent the worker into its catch block: the write-back was
\* refused when a consolidated result has been sent, the report was not found
\* otherwise.
C19_OriginalError(me) ==
  IF \E i \in 1..Len(me.sent) : me.sent[i].status = "complete"
    THEN "update failed" ELSE "not found"

\* C19: a worker that failed fatally has sent exactly one failure write, as
\* its last write, carrying the original error, and ends with that same error
\* whatever became of the failure write; before the catch block runs no
\* failure write has been sent.
C19_OneFailureWriteThenRethrow ==
  \A w \in WorkerIds :
    LET me == workers[w]
        failed == {i \in 1..Len(me.sent) : me.sent[i].status = "failed"}
    IN /\ me.pc = "thrown" =>
            /\ failed = {Len(me.sent)}
            /\ me.sent[Len(me.sent)] = Analysis("failed", C19_OriginalError(me), EmptyAggregate)
            /\ me.error = C19_OriginalError(me)
       /\ me.pc # "thrown" => failed = {}

\* The write-back was refused, the failure write did not reach the report
\* either, and the worker ended with the write-back's error.
C19_Witness ==
  \E w \in WorkerIds :
    /\ workers[w].pc = "thrown"
    /\ workers[w].error = "update failed"
    /\ Len(workers[w].sent) = 2
    /\ reports[workers[w].reportId].aiAnalysis.status = "analyzing"

\* The report was not found and the worker ended with that error.
C19_WitnessNotFound ==
  \E w \in WorkerIds :
    /\ workers[w].pc = "thrown"
    /\ workers[w].error = "not found"
    /\ Len(workers[w].sent) = 1

\* C20: the analyze route answers 404 when the report cannot be fetched and
\* 400 when the report has no photos, and then neither the report nor the
\* worker is touched; when the route has invoked the worker, the report's
\* aiAnalysis had been set to 'analyzing'.
C20_AnalyzeRefusals ==
  lastRep.op = "analyze" =>
    /\ ~lastRep.found => lastRep.status = "404"
    /\ (lastRep.found /\ ~lastRep.hasPhotos) => lastRep.status = "400"
    /\ lastRep.status \in {"404", "400"} => (lastRep.unchanged /\ ~lastRep.invoked)
    /\ lastRep.invoked => (lastRep.analyzing /\ lastRep.status = "200")

\* A report without photos was refused.
C20_Witness ==
  /\ lastRep.op = "analyze"
  /\ lastRep.found
  /\ ~lastRep.hasPhotos
  /\ lastRep.status = "400"
  /\ ~lastRep.invoked

\* The worker was invoked for a report marked 'analyzing'.
C20_WitnessInvoked ==
  /\ lastRep.op = "analyze"
  /\ lastRep.invoked
  /\ \E w \in WorkerIds : workers[w].pc = "fetch" /\ workers[w].reportId \in lastRep.returned

\* C21: after a successful DELETE of a report, every analysed image recorded
\* in its aiAnalysis (all_local_paths and the detections' local_output_path)
\* is gone from the bucket the worker stored it in.
C21_DeleteCascadesToImages ==
  (lastRep.op = "DELETE" /\ lastRep.status = "200") =>
    \A k \in lastRep.aiPaths : k \notin bucket

\* C22: every write of the worker that the data layer applies, the result
\* write and the failure write alike, leaves the report's status 'submitted'
\* whatever it was before, a status of in_review or resolved saved by a user
\* before or during the analysis included.
C22_WriteBackResetsStatus ==
  \A w \in WorkerIds :
    \A i \in 1..Len(workers[w].written) : workers[w].written[i].status[2] = "submitted"

\* A result write replaced a status a user had saved.
C22_Witness ==
  \E w \in WorkerIds :
    /\ workers[w].pc = "done"
    /\ \E i \in 1..Len(workers[w].written) :
         workers[w].written[i].status \in {<<"in_review", "submitted">>, <<"resolved", "submitted">>}

\* A failure write replaced a status a user had saved.
C22_WitnessFailure ==
  \E w \in WorkerIds :
    /\ workers[w].pc = "thrown"
    /\ workers[w].sent[Len(workers[w].sent)].status = "failed"
    /\ \E i \in 1..Len(workers[w].written) :
         workers[w].written[i].status \in {<<"in_review", "submitted">>, <<"resolved", "submitted">>}

\* The last element of a non-empty sequence.
Last(q) == q[Len(q)]

\* Every write the data layer applies replaces aiAnalysis by the whole blob
\* its worker sent, and a result or failure blob a report holds is the one
\* the last write of some worker left, with the copies of that run only.
C23_WholeBlobOfOneWriter ==
  /\ \A w \in DOMAIN workers :
       \A i \in 1..Len(workers[w].written) :
         workers[w].written[i].aiAnalysis = Last(workers[w].sent)
  /\ \A r \in ReportIds :
       reports[r].aiAnalysis.status \in {"complete", "failed"} =>
         \E w \in DOMAIN workers :
           /\ workers[w].reportId = r /\ workers[w].written # <<>>
           /\ reports[r].aiAnalysis = Last(workers[w].written).aiAnalysis
           /\ \A k \in reports[r].aiAnalysis.data.all_local_paths : k.run = workers[w].run

\* Every invocation that started comes to its end.
C23_BothFinish ==
  \A w \in RacerIds :
    (workers[w].pc = "fetch") ~> (workers[w].pc \in {"done", "thrown"})

\* C23: when the analyze route is called again for a report whose analysis
\* is running, both invocations of the worker run to their end, and the
\* aiAnalysis the report ends with is the whole blob written by one of them,
\* the last writer, never a mixture of the two.
C23_LastWriterWins == []C23_WholeBlobOfOneWriter /\ C23_BothFinish

\* Two runs overlapped: the second writer replaced the blob of the first one,
\* which had detections, and the report holds the second writer's blob.
C23_Witness ==
  \E w, v \in DOMAIN workers :
    /\ w # v
    /\ workers[w].pc = "done" /\ workers[v].pc = "done"
    /\ workers[w].reportId = 1 /\ workers[v].reportId = 1
    /\ workers[w].written # <<>> /\ workers[v].written # <<>>
    /\ Last(workers[w].written).was = "analyzing"
    /\ Last(workers[v].written).was = "complete"
    /\ Len(Last(workers[w].written).aiAnalysis.data.detections) > 0
    /\ Last(workers[v].written).aiAnalysis # Last(workers[w].written).aiAnalysis
    /\ reports[1].aiAnalysis = Last(workers[v].written).aiAnalysis

\* The answers of the photos that were analysed, in photo order.
C24_Analysed(me) ==
  LET ix == {i \in 1..Len(me.outcomes) : me.outcomes[i] = "ok"}
      F[i \in 0..Len(me.outcomes)] ==
        IF i = 0 THEN <<>>
        ELSE IF i \in ix THEN Append(F[i - 1], me.results[i]) ELSE F[i - 1]
  IN F[Len(me.outcomes)]

\* The values of one field of the answers, one after the other.
RECURSIVE C24_Concat(_, _)
C24_Concat(answers, field) ==
  IF answers = <<>> THEN <<>>
  ELSE Head(answers)[field] \o C24_Concat(Tail(answers), field)

\* q lists each value of `all` once, in the order of first occurrence.
C24_DistinctInOrder(q, all) ==
  LET first(x) == CHOOSE k \in 1..Len(all) :
                    all[k] = x /\ \A m \in 1..(k - 1) : all[m] # x
  IN /\ {q[i] : i \in 1..Len(q)} = {all[k] : k \in 1..Len(all)}
     /\ \A i, j \in 1..Len(q) : i < j => first(q[i]) < first(q[j])

\* C24: the consolidated blob is made of the answers of the analysed photos
\* only: their detections in photo order, their bullets and signals without
\* duplicates, their distinct final assessments in order of first occurrence
\* ('Assessment Incomplete' when there is none), and the last peril_match
\* whose match is not 'unknown', {match: 'unknown', reason: ''} without one.
C24_BlobOfAnalysedPhotos ==
  \A w \in WorkerIds :
    LET me == workers[w]
        agg == me.aggregatedData
        answers == C24_Analysed(me)
        assessments == SelectSeq([i \in 1..Len(answers) |-> answers[i].final_assessment],
                                 LAMBDA a : a # 0)
        known == {i \in 1..Len(answers) : answers[i].peril_match.match \notin {"", "unknown"}}
    IN PastLoop(me) =>
         /\ [i \in 1..Len(agg.detections) |-> agg.detections[i].output_s3_uri]
              = [i \in 1..Len(C24_Concat(answers, "detections")) |->
                   C24_Concat(answers, "detections")[i].output_s3_uri]
         /\ C24_DistinctInOrder(agg.evidence_bullets, C24_Concat(answers, "evidence_bullets"))
         /\ C24_DistinctInOrder(agg.fraud_signals, C24_Concat(answers, "fraud_signals"))
         /\ agg.final_assessment.incomplete = (assessments = <<>>)
         /\ C24_DistinctInOrder(agg.final_assessment.parts, assessments)
         /\ agg.peril_match =
              IF known = {} THEN [match |-> "unknown", reason |-> 0]
              ELSE answers[CHOOSE i \in known : \A j \in known : j <= i].peril_match

\* Three photos: the first answered with one peril, the second failed, the
\* third answered with another peril and with bullets the first had too.
C24_Witness ==
  \E w \in WorkerIds :
    LET me == workers[w]
    IN /\ PastLoop(me) /\ Len(me.photoUrls) = 3
       /\ me.outcomes[1] = "ok" /\ me.outcomes[2] # "ok" /\ me.outcomes[3] = "ok"
       /\ me.results[1].peril_match.match = "hail"
       /\ me.results[3].peril_match.match = "wind"
       /\ me.aggregatedData.peril_match.match = "wind"
       /\ Len(me.aggregatedData.evidence_bullets) = 2
       /\ Len(me.aggregatedData.final_assessment.parts) = 1

\* The run has gone through the copy step of a report that has photos.
C25_Copied(me) ==
  me.pc \in {"write", "done", "failwrite", "thrown"} /\ me.photoUrls # <<>>

\* C25: in a run each distinct output_s3_uri of the detections is copied at
\* most once; after the copy step the detections of one output_s3_uri have
\* the same local_output_path, all_local_paths is the set of the target keys
\* of the copies that succeeded, and a failed copy leaves the
\* local_output_path of its detections undefined and the run goes on.
C25_CopyStep ==
  \A w \in WorkerIds :
    LET me == workers[w]
        d == me.aggregatedData.detections
        uris == {d[i].output_s3_uri : i \in 1..Len(d)}
        tried == {me.copies[i][1] : i \in 1..Len(me.copies)}
        succeeded == {me.copies[i][1] : i \in {j \in 1..Len(me.copies) : me.copies[j][2]}}
        keyOf(u) == [report |-> me.reportId, uri |-> u, run |-> me.run]
    IN /\ \A i, j \in 1..Len(me.copies) : me.copies[i][1] = me.copies[j][1] => i = j
       /\ tried \subseteq uris
       /\ \A u \in succeeded : keyOf(u) \in bucket
       /\ C25_Copied(me) =>
            /\ tried = uris
            /\ \A i, j \in 1..Len(d) :
                 d[i].output_s3_uri = d[j].output_s3_uri =>
                   d[i].local_output_path = d[j].local_output_path
            /\ me.aggregatedData.all_local_paths = {keyOf(u) : u \in succeeded}
            /\ \A i \in 1..Len(d) :
                 d[i].local_output_path =
                   IF d[i].output_s3_uri \in succeeded THEN keyOf(d[i].output_s3_uri) ELSE NoKey
            /\ me.pc # "write" =>
                 (Len(me.sent) >= 1 /\ me.sent[1] = Analysis("complete", "", me.aggregatedData))

\* A run ended after one copy failed and another succeeded, two detections
\* sharing the output URI of the copy that succeeded.
C25_Witness ==
  \E w \in WorkerIds :
    LET me == workers[w]
        d == me.aggregatedData.detections
    IN /\ me.pc = "done" /\ Len(me.copies) = 2
       /\ \E i, j \in 1..2 : me.copies[i][2] /\ ~me.copies[j][2]
       /\ \E i, j \in 1..Len(d) :
            /\ i # j /\ d[i].output_s3_uri = d[j].output_s3_uri
            /\ d[i].local_output_path # NoKey
       /\ \E i \in 1..Len(d) : d[i].local_output_path = NoKey
       /\ Cardinality(me.aggregatedData.all_local_paths) = 1

\* C26: update-role is all-or-nothing: after a success answer the target is
\* a member of exactly one group, newRole, every earlier group gone; after an
\* error answer the target's groups are what they were before the call.
C26_UpdateRoleAllOrNothing ==
  (last.op = "updateRole" /\ last.target # NoUser) =>
    /\ last.status = "200" => pool[last.target].groups = {last.role}
    /\ last.status # "200" => ~last.changed


\* The route answered 200 for a user that was in two groups, SuperAdmin one
\* of them, and the user is in the new group alone.
C26_WitnessSuccess ==
  /\ last.op = "updateRole" /\ last.status = "200" /\ last.changed
  /\ pool[last.target].groups = {last.role}

\* C27: when the edit-report modal saves, no photo path the save removes
\* from storage is in the photoUrls it writes to the report, whatever
\* openings, photo deletions and closings without saving came before.
C27_SaveKeepsNoDeletedPhoto ==
  (modal.lastSave.saved /\ modal.lastSave.applied) =>
    \A p \in modal.lastSave.deleted : p \notin SeqRange(modal.lastSave.photoUrls)

====
